---- MODULE Spec2Model ----
(***************************************************************************)
(* Model of tools/package/hooks/pre_gen_project.py: the two predicates     *)
(* is_valid_name and is_not_reserved, and the guard sequence of            *)
(* pre_gen_project.                                                        *)
(*                                                                         *)
(* A Python str is a sequence of characters; a character is a one-element  *)
(* TLA+ string, or a token "U+XXXX" for a code point that has no ASCII     *)
(* spelling.  pkg and desc are the values the two local variables hold     *)
(* once the scaffolder has rendered the template placeholders.             *)
(***************************************************************************)
EXTENDS Integers, Sequences, FiniteSets, TLC

VARIABLES pkg, desc, pc, stdout, exit_status, calls

vars == <<pkg, desc, pc, stdout, exit_status, calls>>

(***************************************************************************)
(* Character classes                                                       *)
(***************************************************************************)
\* [a-z]
Lower ==
    { "a", "b", "c", "d", "e", "f", "g", "h", "i", "j", "k", "l", "m",
      "n", "o", "p", "q", "r", "s", "t", "u", "v", "w", "x", "y", "z" }

\* [0-9]
AsciiDigit ==
    { "0", "1", "2", "3", "4", "5", "6", "7", "8", "9" }

\* variant: the class also admits the dot, as npm itself does
NameClass_dot ==
    Lower \cup AsciiDigit \cup {"."}

\* [a-z0-9], the character class of the name pattern
NameClass ==
    Lower \cup AsciiDigit

\* \d of a str pattern: every Unicode decimal digit, of which the model
\* carries ARABIC-INDIC DIGIT THREE and FULLWIDTH DIGIT ONE besides [0-9]
UnicodeDigit ==
    AsciiDigit \cup { "U+0663", "U+FF11" }

\* the characters str.isspace() holds of, which str.strip() removes
Whitespace ==
    { " ", "\t", "\n", "\r", "U+000B", "\f", "U+001C", "U+001D", "U+001E",
      "U+001F", "U+0085", "U+00A0", "U+2028", "U+3000" }

(***************************************************************************)
(* Literals of the source                                                  *)
(***************************************************************************)
CORE_MODULES ==
    { <<"a", "s", "s", "e", "r", "t">>,
      <<"b", "u", "f", "f", "e", "r">>,
      <<"c", "h", "i", "l", "d", "_", "p", "r", "o", "c", "e", "s", "s">>,
      <<"c", "l", "u", "s", "t", "e", "r">>,
      <<"c", "o", "n", "s", "o", "l", "e">>,
      <<"c", "o", "n", "s", "t", "a", "n", "t", "s">>,
      <<"c", "r", "y", "p", "t", "o">>,
      <<"d", "g", "r", "a", "m">>,
      <<"d", "n", "s">>,
      <<"d", "o", "m", "a", "i", "n">>,
      <<"e", "v", "e", "n", "t", "s">>,
      <<"f", "s">>,
      <<"h", "t", "t", "p">>,
      <<"h", "t", "t", "p", "s">>,
      <<"m", "o", "d", "u", "l", "e">>,
      <<"n", "e", "t">>,
      <<"o", "s">>,
      <<"p", "a", "t", "h">>,
      <<"p", "e", "r", "f", "_", "h", "o", "o", "k", "s">>,
      <<"p", "r", "o", "c", "e", "s", "s">>,
      <<"p", "u", "n", "y", "c", "o", "d", "e">>,
      <<"q", "u", "e", "r", "y", "s", "t", "r", "i", "n", "g">>,
      <<"r", "e", "a", "d", "l", "i", "n", "e">>,
      <<"s", "t", "r", "e", "a", "m">>,
      <<"s", "t", "r", "i", "n", "g", "_", "d", "e", "c", "o", "d", "e", "r">>,
      <<"t", "i", "m", "e", "r", "s">>,
      <<"t", "l", "s">>,
      <<"t", "t", "y">>,
      <<"u", "r", "l">>,
      <<"u", "t", "i", "l">>,
      <<"v", "8">>,
      <<"v", "m">>,
      <<"z", "l", "i", "b">> }

\* "node-"
NODE_PREFIX ==
    <<"n", "o", "d", "e", "-">>

\* "npm-"
NPM_PREFIX ==
    <<"n", "p", "m", "-">>

\* len(name) <= 214
NAME_MAX ==
    214

\* len(desc.strip()) < 10
DESC_MIN ==
    10

\* "ERROR: '"
MSG_INVALID_HEAD ==
    <<"E", "R", "R", "O", "R", ":", " ", "'">>

\* "' is not a valid npm package name."
MSG_INVALID_TAIL ==
    <<"'", " ", "i", "s", " ", "n", "o", "t", " ", "a", " ", "v", "a", "l", "i", "d", " ", "n", "p", "m", " ", "p", "a", "c", "k", "a", "g", "e", " ", "n", "a", "m", "e", ".">>

\* "It must be 1–214 chars, lowercase, digits or hyphens,"
MSG_RULE_1 ==
    <<"I", "t", " ", "m", "u", "s", "t", " ", "b", "e", " ", "1", "U+2013", "2", "1", "4", " ", "c", "h", "a", "r", "s", ",", " ", "l", "o", "w", "e", "r", "c", "a", "s", "e", ",", " ", "d", "i", "g", "i", "t", "s", " ", "o", "r", " ", "h", "y", "p", "h", "e", "n", "s", ",">>

\* "no leading/trailing hyphens, and no consecutive hyphens."
MSG_RULE_2 ==
    <<"n", "o", " ", "l", "e", "a", "d", "i", "n", "g", "/", "t", "r", "a", "i", "l", "i", "n", "g", " ", "h", "y", "p", "h", "e", "n", "s", ",", " ", "a", "n", "d", " ", "n", "o", " ", "c", "o", "n", "s", "e", "c", "u", "t", "i", "v", "e", " ", "h", "y", "p", "h", "e", "n", "s", ".">>

\* "' is reserved or forbidden (core module or reserved prefix)."
MSG_RESERVED_TAIL ==
    <<"'", " ", "i", "s", " ", "r", "e", "s", "e", "r", "v", "e", "d", " ", "o", "r", " ", "f", "o", "r", "b", "i", "d", "d", "e", "n", " ", "(", "c", "o", "r", "e", " ", "m", "o", "d", "u", "l", "e", " ", "o", "r", " ", "r", "e", "s", "e", "r", "v", "e", "d", " ", "p", "r", "e", "f", "i", "x", ")", ".">>

\* "ERROR: The description must be at least 10 characters long."
MSG_DESCRIPTION ==
    <<"E", "R", "R", "O", "R", ":", " ", "T", "h", "e", " ", "d", "e", "s", "c", "r", "i", "p", "t", "i", "o", "n", " ", "m", "u", "s", "t", " ", "b", "e", " ", "a", "t", " ", "l", "e", "a", "s", "t", " ", "1", "0", " ", "c", "h", "a", "r", "a", "c", "t", "e", "r", "s", " ", "l", "o", "n", "g", ".">>


(***************************************************************************)
(* re: `$` without MULTILINE matches at the end of the string and just     *)
(* before a newline that is the last character.  k is the number of        *)
(* characters consumed so far.                                             *)
(***************************************************************************)
DollarMatches(s, k) ==
    \/ k = Len(s)
    \/ k = Len(s) - 1 /\ s[Len(s)] = "\n"

\* one step of the automaton of [a-z0-9]+(?:-[a-z0-9]+)*
NameStep(q, c) ==
    IF c \in NameClass THEN "word"
    ELSE IF c = "-" /\ q = "word" THEN "hyphen"
    ELSE "dead"

RECURSIVE NameRun(_, _, _, _)
\* the state the automaton is in after s[i..k], entered in state q; the
\* run is split in halves, which keeps the evaluation shallow on a name of
\* NAME_MAX characters
NameRun(s, i, k, q) ==
    IF i > k THEN q
    ELSE IF i = k THEN NameStep(q, s[i])
    ELSE LET mid == NameRun(s, i, (i + k) \div 2, q)
         IN  IF mid = "dead" THEN "dead"
             ELSE NameRun(s, ((i + k) \div 2) + 1, k, mid)

\* re.match(r'^[a-z0-9]+(?:-[a-z0-9]+)*$', name) is not None
NameRegexMatches(s) ==
    \E k \in 0..Len(s) : DollarMatches(s, k) /\ NameRun(s, 1, k, "start") = "word"

\* variant: the upper length bound is exclusive
is_valid_name_exclusive(name) ==
    IF ~(1 <= Len(name) /\ Len(name) < NAME_MAX) THEN FALSE
    ELSE NameRegexMatches(name)

is_valid_name(name) ==
    IF ~(1 <= Len(name) /\ Len(name) <= NAME_MAX) THEN FALSE
    ELSE NameRegexMatches(name)

\* one step of the automaton of -\d+\.\d+\.\d+
VersionStep(q, c) ==
    IF q = "begin" THEN (IF c = "-" THEN "hyphen" ELSE "dead")
    ELSE IF q = "hyphen" THEN (IF c \in UnicodeDigit THEN "major" ELSE "dead")
    ELSE IF q = "major" THEN
        (IF c \in UnicodeDigit THEN "major" ELSE IF c = "." THEN "dot1" ELSE "dead")
    ELSE IF q = "dot1" THEN (IF c \in UnicodeDigit THEN "minor" ELSE "dead")
    ELSE IF q = "minor" THEN
        (IF c \in UnicodeDigit THEN "minor" ELSE IF c = "." THEN "dot2" ELSE "dead")
    ELSE IF q = "dot2" THEN (IF c \in UnicodeDigit THEN "patch" ELSE "dead")
    ELSE IF q = "patch" THEN (IF c \in UnicodeDigit THEN "patch" ELSE "dead")
    ELSE "dead"

RECURSIVE VersionRun(_, _, _, _)
\* the state the automaton is in after s[i..k], entered in state q
VersionRun(s, i, k, q) ==
    IF i > k THEN q
    ELSE IF i = k THEN VersionStep(q, s[i])
    ELSE LET mid == VersionRun(s, i, (i + k) \div 2, q)
         IN  IF mid = "dead" THEN "dead"
             ELSE VersionRun(s, ((i + k) \div 2) + 1, k, mid)

\* re.search(r'-\d+\.\d+\.\d+$', name)
VersionRegexSearch(s) ==
    \E k \in 0..Len(s) :
        /\ DollarMatches(s, k)
        /\ \E i \in 1..k : s[i] = "-" /\ VersionRun(s, i, k, "begin") = "patch"

\* str.startswith
startswith(s, prefix) ==
    /\ Len(s) >= Len(prefix)
    /\ SubSeq(s, 1, Len(prefix)) = prefix

is_not_reserved(name) ==
    IF name \in CORE_MODULES THEN FALSE
    ELSE IF startswith(name, NODE_PREFIX) \/ startswith(name, NPM_PREFIX) THEN FALSE
    ELSE IF VersionRegexSearch(name) THEN FALSE
    ELSE TRUE

RECURSIVE lstrip(_)
lstrip(s) ==
    IF s = <<>> THEN s
    ELSE IF Head(s) \in Whitespace THEN lstrip(Tail(s))
    ELSE s

RECURSIVE rstrip(_)
rstrip(s) ==
    IF s = <<>> THEN s
    ELSE IF s[Len(s)] \in Whitespace THEN rstrip(SubSeq(s, 1, Len(s) - 1))
    ELSE s

\* str.strip()
strip(s) ==
    rstrip(lstrip(s))

\* print(text): the text and a newline go to standard output
print(out, text) ==
    out \o text \o <<"\n">>

(***************************************************************************)
(* Inputs                                                                  *)
(***************************************************************************)
\* longest name of the exhaustive enumeration over ShortAlphabet
MaxShortLen ==
    3

\* how far past NAME_MAX the long names go
MaxOver ==
    1

\* how far past DESC_MIN the description bodies go
MaxExtra ==
    1

Rep(c, n) ==
    [i \in 1..n |-> c]

Insert(s, p, c) ==
    SubSeq(s, 1, p) \o <<c>> \o SubSeq(s, p + 1, Len(s))

ShortAlphabet ==
    { "a", "-", "\n", "A" }

ShortNames ==
    UNION { [1..n -> ShortAlphabet] : n \in 0..MaxShortLen }

\* characters outside [a-z0-9-]
Outsiders ==
    { "A", "_", " ", ".", "\n", "\t", "U+00E9", "U+0663" }

InjectedNames ==
    UNION { { Insert(base, p, c) : p \in 0..Len(base), c \in Outsiders } :
              base \in { <<"a", "b">>, <<"a", "-", "7">> } }

LongLens ==
    (NAME_MAX - 1)..(NAME_MAX + MaxOver)

LongNames ==
    UNION { { Rep("a", n),
              <<"a", "-">> \o Rep("9", n - 2),
              <<"a", "-", "-">> \o Rep("a", n - 3),
              <<"-">> \o Rep("a", n - 1),
              Rep("a", n - 1) \o <<"-">>,
              Rep("a", n - 1) \o <<"\n">>,
              Rep("a", n - 1) \o <<"A">> } : n \in LongLens }

ReservedLike ==
    CORE_MODULES
    \cup { m \o <<"\n">> : m \in CORE_MODULES }
    \cup { <<"f", "s", "-", "e", "x", "t", "r", "a">>,
           <<"n", "o", "d", "e">>, <<"n", "p", "m">>,
           <<"n", "o", "d", "e", "j", "s">>,
           NODE_PREFIX, NPM_PREFIX,
           NODE_PREFIX \o <<"f", "o", "o">>, NPM_PREFIX \o <<"b", "a", "r">>,
           NODE_PREFIX \o <<"f", "o", "o", "\n">>,
           NODE_PREFIX \o <<"F">>, NPM_PREFIX \o <<"-", "a">>,
           <<"x">> \o NODE_PREFIX \o <<"a">>, <<"a", "-">> \o NPM_PREFIX \o <<"a">>,
           <<"m", "y", "-", "l", "i", "b">>,
           <<"c", "o", "o", "l", "-", "t", "o", "o", "l">> }

DigitRuns ==
    { <<>>, <<"1">>, <<"1", "2">>, <<"U+0663">> }

VersionTails ==
    { <<>>, <<"\n">>, <<"\n", "\n">>, <<"a">>, <<"-">> }

VersionLike ==
    { head \o <<"-">> \o d1 \o <<".">> \o d2 \o <<".">> \o d3 \o tail :
        head \in { <<>>, <<"p", "k", "g">> },
        d1 \in { <<>>, <<"1">> }, d2 \in { <<>>, <<"2">> },
        d3 \in DigitRuns, tail \in VersionTails }
    \cup { <<"p", "-", "1", ".", "2">>, <<"p", "-", "1", "2", "3">>,
           <<"p", "1", ".", "2", ".", "3">>, <<"p", "-", "1", "a", "2", "a", "3">> }

NameInputs ==
    ShortNames \cup InjectedNames \cup LongNames \cup ReservedLike \cup VersionLike

\* n whitespace characters, cycling through kinds of whitespace
Pad(n) ==
    [i \in 1..n |->
        CASE i % 4 = 1 -> " " [] i % 4 = 2 -> "\t"
          [] i % 4 = 3 -> "\n" [] OTHER -> "U+00A0"]

\* n characters, none of them whitespace at either end; `inner` puts
\* whitespace inside
Body(n, inner) ==
    [i \in 1..n |-> IF inner /\ 1 < i /\ i < n /\ i % 3 = 2 THEN " " ELSE "d"]

PadLens ==
    { 0, 1, DESC_MIN }

DescInputs ==
    { Pad(l) \o Body(n, inner) \o Pad(r) :
        l \in PadLens, r \in PadLens, n \in 0..(DESC_MIN + MaxExtra), inner \in BOOLEAN }

(***************************************************************************)
(* pre_gen_project, one action per statement                               *)
(***************************************************************************)
Call(fn, arg, ret) ==
    [fn |-> fn, arg |-> arg, ret |-> ret]

Init ==
    /\ pkg \in NameInputs
    /\ desc \in DescInputs
    /\ pc = "L50"
    /\ stdout = <<>>
    /\ exit_status = 0
    /\ calls = <<>>

\* sys.exit(1)
sys_exit(status) ==
    /\ exit_status' = status
    /\ pc' = "exited"
    /\ UNCHANGED <<pkg, desc, stdout, calls>>

\* if not is_valid_name(pkg):
CheckName ==
    /\ pc = "L50"
    /\ calls' = Append(calls, Call("is_valid_name", pkg, is_valid_name(pkg)))
    /\ pc' = IF ~is_valid_name(pkg) THEN "L51" ELSE "L56"
    /\ UNCHANGED <<pkg, desc, stdout, exit_status>>

PrintInvalid1 ==
    /\ pc = "L51"
    /\ stdout' = print(stdout, MSG_INVALID_HEAD \o pkg \o MSG_INVALID_TAIL)
    /\ pc' = "L52"
    /\ UNCHANGED <<pkg, desc, exit_status, calls>>

PrintInvalid2 ==
    /\ pc = "L52"
    /\ stdout' = print(stdout, MSG_RULE_1)
    /\ pc' = "L53"
    /\ UNCHANGED <<pkg, desc, exit_status, calls>>

\* variant: the second rule line is never printed
PrintInvalid3_missing ==
    /\ pc = "L53"
    /\ pc' = "L54"
    /\ UNCHANGED <<pkg, desc, stdout, exit_status, calls>>

PrintInvalid3 ==
    /\ pc = "L53"
    /\ stdout' = print(stdout, MSG_RULE_2)
    /\ pc' = "L54"
    /\ UNCHANGED <<pkg, desc, exit_status, calls>>

\* variant: sys.exit(1) is missing and control falls through to the next check
ExitInvalid_fallthrough ==
    /\ pc = "L54"
    /\ pc' = "L56"
    /\ UNCHANGED <<pkg, desc, stdout, exit_status, calls>>

ExitInvalid ==
    /\ pc = "L54"
    /\ sys_exit(1)

\* variant: the result of is_not_reserved is ignored
CheckReserved_ignored ==
    /\ pc = "L56"
    /\ calls' = Append(calls, Call("is_not_reserved", pkg, is_not_reserved(pkg)))
    /\ pc' = "L61"
    /\ UNCHANGED <<pkg, desc, stdout, exit_status>>

\* if not is_not_reserved(pkg):
CheckReserved ==
    /\ pc = "L56"
    /\ calls' = Append(calls, Call("is_not_reserved", pkg, is_not_reserved(pkg)))
    /\ pc' = IF ~is_not_reserved(pkg) THEN "L57" ELSE "L61"
    /\ UNCHANGED <<pkg, desc, stdout, exit_status>>

\* variant: the reserved diagnostic is printed without "ERROR: "
PrintReserved_noprefix ==
    /\ pc = "L57"
    /\ stdout' = print(stdout, <<"'">> \o pkg \o MSG_RESERVED_TAIL)
    /\ pc' = "L58"
    /\ UNCHANGED <<pkg, desc, exit_status, calls>>

PrintReserved ==
    /\ pc = "L57"
    /\ stdout' = print(stdout, MSG_INVALID_HEAD \o pkg \o MSG_RESERVED_TAIL)
    /\ pc' = "L58"
    /\ UNCHANGED <<pkg, desc, exit_status, calls>>

ExitReserved ==
    /\ pc = "L58"
    /\ sys_exit(1)

\* variant: the description is measured without strip()
CheckDescription_nostrip ==
    /\ pc = "L61"
    /\ calls' = Append(calls, Call("strip", desc, desc))
    /\ pc' = IF Len(desc) < DESC_MIN THEN "L62" ELSE "end"
    /\ UNCHANGED <<pkg, desc, stdout, exit_status>>

\* if len(desc.strip()) < 10:
CheckDescription ==
    /\ pc = "L61"
    /\ calls' = Append(calls, Call("strip", desc, strip(desc)))
    /\ pc' = IF Len(strip(desc)) < DESC_MIN THEN "L62" ELSE "end"
    /\ UNCHANGED <<pkg, desc, stdout, exit_status>>

\* variant: the description diagnostic is never printed
PrintDescription_silent ==
    /\ pc = "L62"
    /\ pc' = "L63"
    /\ UNCHANGED <<pkg, desc, stdout, exit_status, calls>>

PrintDescription ==
    /\ pc = "L62"
    /\ stdout' = print(stdout, MSG_DESCRIPTION)
    /\ pc' = "L63"
    /\ UNCHANGED <<pkg, desc, exit_status, calls>>

ExitDescription ==
    /\ pc = "L63"
    /\ sys_exit(1)

\* falling off the end of pre_gen_project: the interpreter ends with status 0
Return ==
    /\ pc = "end"
    /\ pc' = "returned"
    /\ exit_status' = 0
    /\ UNCHANGED <<pkg, desc, stdout, calls>>

Next ==
    \/ CheckName
    \/ PrintInvalid1
    \/ PrintInvalid2
    \/ PrintInvalid3
    \/ ExitInvalid
    \/ CheckReserved
    \/ PrintReserved
    \/ ExitReserved
    \/ CheckDescription
    \/ PrintDescription
    \/ ExitDescription
    \/ Return

Spec ==
    Init /\ [][Next]_vars

(***************************************************************************)
(* The two predicates called on their own, on any string                   *)
(***************************************************************************)
Called(fn) ==
    \E i \in DOMAIN calls : calls[i].fn = fn

InitFn ==
    /\ pkg \in NameInputs
    /\ desc = <<>>
    /\ pc = "unit"
    /\ stdout = <<>>
    /\ exit_status = 0
    /\ calls = <<>>

CallIsValidName ==
    /\ pc = "unit"
    /\ ~Called("is_valid_name")
    /\ calls' = Append(calls, Call("is_valid_name", pkg, is_valid_name(pkg)))
    /\ UNCHANGED <<pkg, desc, pc, stdout, exit_status>>

CallIsNotReserved ==
    /\ pc = "unit"
    /\ ~Called("is_not_reserved")
    /\ calls' = Append(calls, Call("is_not_reserved", pkg, is_not_reserved(pkg)))
    /\ UNCHANGED <<pkg, desc, pc, stdout, exit_status>>

NextFn ==
    \/ CallIsValidName
    \/ CallIsNotReserved

SpecFn ==
    InitFn /\ [][NextFn]_vars

(***************************************************************************)
(* Vocabulary of the properties                                            *)
(***************************************************************************)
\* "ERROR:"
ERROR_PREFIX ==
    <<"E", "R", "R", "O", "R", ":">>

\* the names of the functions called so far, in call order
FnSeq ==
    [i \in DOMAIN calls |-> calls[i].fn]

CheckOrder ==
    <<"is_valid_name", "is_not_reserved", "strip">>

IsPrefix(a, b) ==
    /\ Len(a) <= Len(b)
    /\ \A i \in 1..Len(a) : a[i] = b[i]

Count(s, c) ==
    Cardinality({ i \in DOMAIN s : s[i] = c })

\* every print ends its text with a newline: one line per newline
NumLines(out) ==
    Count(out, "\n")

\* the positions of out at which a line begins
LineStarts(out) ==
    { i \in DOMAIN out : i = 1 \/ out[i - 1] = "\n" }

HasErrorPrefix(out, i) ==
    /\ i + Len(ERROR_PREFIX) - 1 <= Len(out)
    /\ SubSeq(out, i, i + Len(ERROR_PREFIX) - 1) = ERROR_PREFIX

EndsWith(out, tail) ==
    /\ Len(tail) <= Len(out)
    /\ SubSeq(out, Len(out) - Len(tail) + 1, Len(out)) = tail

\* the three diagnostics, as text
MalformedText(name) ==
    MSG_INVALID_HEAD \o name \o MSG_INVALID_TAIL \o <<"\n">>
        \o MSG_RULE_1 \o <<"\n">> \o MSG_RULE_2 \o <<"\n">>

ReservedText(name) ==
    MSG_INVALID_HEAD \o name \o MSG_RESERVED_TAIL \o <<"\n">>

DescriptionText ==
    MSG_DESCRIPTION \o <<"\n">>

RuleLines ==
    MSG_RULE_1 \o <<"\n">> \o MSG_RULE_2 \o <<"\n">>

\* only characters of [a-z0-9-]
OnlyNameChars(s) ==
    \A i \in DOMAIN s : s[i] \in NameClass \cup {"-"}

NoHyphenFault(s) ==
    /\ s[1] # "-"
    /\ s[Len(s)] # "-"
    /\ \A i \in 1..(Len(s) - 1) : ~(s[i] = "-" /\ s[i + 1] = "-")

AllDigits(s, from, to) ==
    /\ from <= to
    /\ \A i \in from..to : s[i] \in UnicodeDigit

\* s ends with hyphen, digits, dot, digits, dot, digits
EndsWithVersionSuffix(s) ==
    \E p2 \in DOMAIN s :
        /\ s[p2] = "."
        /\ AllDigits(s, p2 + 1, Len(s))
        /\ \E p1 \in 1..(p2 - 1) :
            /\ s[p1] = "."
            /\ AllDigits(s, p1 + 1, p2 - 1)
            /\ \E h \in 1..(p1 - 1) : s[h] = "-" /\ AllDigits(s, h + 1, p1 - 1)

HasReservedPrefix(s) ==
    \/ Len(s) >= 5 /\ SubSeq(s, 1, 5) = <<"n", "o", "d", "e", "-">>
    \/ Len(s) >= 4 /\ SubSeq(s, 1, 4) = <<"n", "p", "m", "-">>

\* the length of d without its leading and trailing whitespace
TrimmedLen(d) ==
    LET solid == { i \in DOMAIN d : d[i] \notin Whitespace }
    IN  IF solid = {} THEN 0
        ELSE (CHOOSE i \in solid : \A j \in solid : j <= i)
             - (CHOOSE i \in solid : \A j \in solid : i <= j) + 1

AllChecksPass ==
    /\ is_valid_name(pkg)
    /\ is_not_reserved(pkg)
    /\ TrimmedLen(desc) >= DESC_MIN

(***************************************************************************)
(* Properties                                                              *)
(***************************************************************************)
\* C1: pre_gen_project returns normally, exit status 0, exactly when the name
\* is valid, the name is not reserved and the stripped description has at
\* least 10 characters; every other run ends in sys.exit(1).
C1_ExitStatus ==
    /\ pc = "returned" => exit_status = 0 /\ AllChecksPass
    /\ pc = "exited" => exit_status = 1 /\ ~AllChecksPass
    /\ pc = "end" => AllChecksPass

C1_Witness ==
    /\ pc = "returned"
    /\ exit_status = 0
    /\ Len(calls) = 3
    /\ pkg = <<"c", "o", "o", "l", "-", "t", "o", "o", "l">>

\* C2: a string with a character outside [a-z0-9-], in any position, the
\* last included, is never a valid name.
C2_OutsiderRejected ==
    \A i \in DOMAIN calls :
        (calls[i].fn = "is_valid_name" /\ ~OnlyNameChars(calls[i].arg))
            => calls[i].ret = FALSE

\* C3: on strings over [a-z0-9-], is_valid_name holds exactly of those of
\* length 1..214 with no leading, trailing or doubled hyphen.
C3_NameCharsIff ==
    \A i \in DOMAIN calls :
        (calls[i].fn = "is_valid_name" /\ OnlyNameChars(calls[i].arg))
            => (calls[i].ret <=>
                    /\ 1 <= Len(calls[i].arg)
                    /\ Len(calls[i].arg) <= 214
                    /\ NoHyphenFault(calls[i].arg))

C3_Witness ==
    \E i \in DOMAIN calls :
        /\ calls[i].fn = "is_valid_name"
        /\ OnlyNameChars(calls[i].arg)
        /\ Len(calls[i].arg) = 214
        /\ "-" \in { calls[i].arg[j] : j \in DOMAIN calls[i].arg }
        /\ calls[i].ret = TRUE

\* C4: is_not_reserved is false exactly of the core module names, the names
\* that begin with "node-" or "npm-", and the names that end with hyphen,
\* digits, dot, digits, dot, digits.
C4_ReservedIff ==
    \A i \in DOMAIN calls :
        calls[i].fn = "is_not_reserved"
            => (calls[i].ret = FALSE <=>
                    \/ calls[i].arg \in CORE_MODULES
                    \/ HasReservedPrefix(calls[i].arg)
                    \/ EndsWithVersionSuffix(calls[i].arg))

\* C5: the checks run in the order name syntax, reservation, description and
\* stop at the first that fails; a failing run prints the diagnostic of that
\* check and of no other.
C5_FirstFailureOnly ==
    /\ IsPrefix(FnSeq, CheckOrder)
    /\ pc = "exited" =>
        IF ~is_valid_name(pkg)
        THEN FnSeq = <<"is_valid_name">> /\ stdout = MalformedText(pkg)
        ELSE IF ~is_not_reserved(pkg)
        THEN FnSeq = <<"is_valid_name", "is_not_reserved">>
             /\ stdout = ReservedText(pkg)
        ELSE FnSeq = CheckOrder /\ stdout = DescriptionText

C5_Witness ==
    /\ pc = "exited"
    /\ ~is_valid_name(pkg)
    /\ ~is_not_reserved(pkg)
    /\ TrimmedLen(desc) < DESC_MIN
    /\ stdout = MalformedText(pkg)

\* C6: with a valid, unreserved name, a description of trimmed length 9 or
\* less ends the run with status 1 and the description diagnostic, whatever
\* its untrimmed length; one of trimmed length 10 or more passes.
C6_TrimmedLength ==
    (is_valid_name(pkg) /\ is_not_reserved(pkg) /\ pc \in {"exited", "returned"})
        => IF TrimmedLen(desc) <= 9
           THEN pc = "exited" /\ exit_status = 1 /\ stdout = DescriptionText
           ELSE pc = "returned" /\ exit_status = 0

C6_Witness ==
    /\ pc = "exited"
    /\ is_valid_name(pkg) /\ is_not_reserved(pkg)
    /\ Len(desc) >= 10
    /\ TrimmedLen(desc) = 9
    /\ stdout = DescriptionText

\* C7: standard output is written exactly in the runs that exit with status
\* 1, and the diagnostic is out before sys.exit is called.
C7_OutputIffFailure ==
    /\ pc = "returned" => stdout = <<>> /\ exit_status = 0
    /\ pc = "exited" => stdout # <<>> /\ exit_status = 1
    /\ pc \in {"L54", "L58", "L63"} => stdout # <<>>
    /\ stdout # <<>> => pc \in {"L52", "L53", "L54", "L58", "L63", "exited"}

C7_Witness ==
    /\ pc = "exited"
    /\ exit_status = 1
    /\ stdout = DescriptionText

\* C8 as stated: every line of the output is prefixed with "ERROR:".
C8_EveryLinePrefixed ==
    \A i \in LineStarts(stdout) : HasErrorPrefix(stdout, i)

\* C8 as amended: the output of each failing run begins with "ERROR:"; the two
\* rule lines that end the malformed-name diagnostic carry no prefix.
C8_FirstLinePrefixed ==
    pc = "exited" =>
        /\ HasErrorPrefix(stdout, 1)
        /\ ~is_valid_name(pkg) =>
            /\ EndsWith(stdout, RuleLines)
            /\ ~HasErrorPrefix(stdout, Len(stdout) - Len(RuleLines) + 1)
            /\ ~HasErrorPrefix(stdout, Len(stdout) - Len(MSG_RULE_2))

C8_Witness ==
    /\ pc = "exited"
    /\ ~is_valid_name(pkg)
    /\ HasErrorPrefix(stdout, 1)
    /\ Cardinality({ i \in LineStarts(stdout) : ~HasErrorPrefix(stdout, i) }) = 2

\* C9 as stated: a malformed name ends the run with status 1 after a
\* diagnostic of exactly two lines.
C9_TwoLines ==
    (pc = "exited" /\ ~is_valid_name(pkg))
        => exit_status = 1 /\ NumLines(stdout) = 2

\* C9 as amended: a malformed name ends the run with status 1 after three
\* print calls, the first naming the value and the other two restating the
\* rule; that is three lines, and one more for each newline in the name.
C9_ThreePrints ==
    /\ ~is_valid_name(pkg) => pc \in {"L50", "L51", "L52", "L53", "L54", "exited"}
    /\ (pc = "exited" /\ ~is_valid_name(pkg)) =>
        /\ exit_status = 1
        /\ stdout = MalformedText(pkg)
        /\ NumLines(stdout) = 3 + Count(pkg, "\n")

C9_Witness ==
    /\ pc = "exited"
    /\ ~is_valid_name(pkg)
    /\ pkg = <<"A">>
    /\ NumLines(stdout) = 3

\* C10: the reserved diagnostic is reached only by a core module name or a
\* name with the prefix "node-" or "npm-"; a name with a version suffix and a
\* core module name with an underscore are reported as malformed.
C10_VersionRuleUnreachable ==
    /\ (pc \in {"L57", "L58"} \/ (pc = "exited" /\ Len(calls) = 2))
        => (pkg \in CORE_MODULES \/ HasReservedPrefix(pkg))
    /\ ((EndsWithVersionSuffix(pkg) \/ VersionRegexSearch(pkg)) /\ calls # <<>>)
        => (calls[1].ret = FALSE /\ Len(calls) = 1)
    /\ (pkg \in CORE_MODULES /\ Count(pkg, "_") > 0 /\ pc \in {"exited", "returned"})
        => (pc = "exited" /\ stdout = MalformedText(pkg))

C10_Witness ==
    /\ pc = "exited"
    /\ EndsWithVersionSuffix(pkg)
    /\ Len(pkg) > 6
    /\ stdout = MalformedText(pkg)

====
